---- MODULE Spec2Model ----
(***************************************************************************)
(* Model of src/src/agents.rs: the Rhai script agent (RhaiScriptAgent),    *)
(* its shared engine, and the two value converters between AgentValue and  *)
(* rhai::Dynamic.                                                          *)
(*                                                                         *)
(* Representation.  An AgentValue is a tuple whose first element is the    *)
(* variant name: <<"Unit">>, <<"Boolean", b>>, <<"Integer", i>>,           *)
(* <<"Number", f>>, <<"String", s>>, <<"Array", seq>>, <<"Object", map>>,  *)
(* and <<"Image", id>> for a variant that the `_` arm of                   *)
(* from_value_to_dynamic catches.  A rhai::Dynamic is a tuple whose first  *)
(* element is the rhai type name: <<"()">>, <<"bool", b>>, <<"i64", i>>,   *)
(* <<"f64", f>>, <<"string", s>>, <<"array", seq>>, <<"map", map>>,        *)
(* <<"char", c>> (a type no arm of from_dynamic_to_value takes) and       *)
(* <<"AgentValue", v>> for the variant slot holding an AgentValue.         *)
(* An f64 is written as its number of halves                               *)
(* (3 is 1.5), which keeps floats apart from integers by the tag only.     *)
(* A map is a function from a finite set of keys.                          *)
(***************************************************************************)
EXTENDS Integers, Sequences, FiniteSets, TLC

VARIABLES
    RHAI_ENGINE,  \* the OnceLock<Engine>: "unset" or "engine"
    agent,        \* "none" before new returns Ok, "alive" afterwards
    ast,          \* RhaiScriptAgent.ast : Option<AST>, None or Some(script)
    op,           \* the handler that ran last, with the configuration or pin given
    result,       \* the Result that handler returned
    steps,        \* the calls that handler made, in order
    outputs,      \* what try_output has emitted so far: <<port, value>>
    calls,        \* the process invocations so far: <<ast, pin, value>>
    cv_pc,        \* converter run: "value", "dynamic", "done"
    cv_in,        \* converter run: the AgentValue given
    cv_dyn,       \* converter run: Result of from_value_to_dynamic
    cv_out,       \* converter run: Result of from_dynamic_to_value
    peer,         \* a second RhaiScriptAgent sharing RHAI_ENGINE
    running,      \* who holds the &mut self borrow of the agent, with its arguments
    inits,        \* how often the initializer || Engine::new() has run
    callers       \* threads inside get_engine: their position and the engine seen

agentVars == <<RHAI_ENGINE, agent, ast, op, result, steps, outputs, calls>>
cvVars == <<cv_pc, cv_in, cv_dyn, cv_out>>
otherVars == <<peer, running, inits, callers>>
vars == <<RHAI_ENGINE, agent, ast, op, result, steps, outputs, calls,
          cv_pc, cv_in, cv_dyn, cv_out, peer, running, inits, callers>>

(***************************************************************************)
(* Bounds                                                                  *)
(***************************************************************************)
MaxLen == 2     \* longest array built over the scalars
MaxCalls == 3   \* process invocations in one behaviour

(***************************************************************************)
(* Option and Result                                                       *)
(***************************************************************************)
None == <<>>
Some(x) == <<x>>

NoError == <<"", "", "">>
\* AgentError::IoError(format!("{prefix}: {e}"))
IoError(prefix, e) == <<"IoError", prefix, e>>
\* AgentError::InvalidValue(format!("{prefix}: {e}"))
InvalidValue(prefix, e) == <<"InvalidValue", prefix, e>>

Ok(x) == [ok |-> TRUE, val |-> x, err |-> NoError]
Err(e) == [ok |-> FALSE, val |-> None, err |-> e]

(***************************************************************************)
(* Static names                                                            *)
(***************************************************************************)
PORT_VALUE == "value"
CONFIG_SCRIPT == "script"

(***************************************************************************)
(* AgentValue and rhai::Dynamic                                            *)
(***************************************************************************)
Keys == {"a", "b"}
\* rhai::Map is a BTreeMap: it iterates in key order.
KeyOrder == <<"a", "b">>

Unit == <<"Unit">>
Boolean(b) == <<"Boolean", b>>
Integer(i) == <<"Integer", i>>
Number(f) == <<"Number", f>>
String(s) == <<"String", s>>
Array(items) == <<"Array", items>>
Object(map) == <<"Object", map>>
\* a variant of AgentValue outside the seven that the converters decompose
Image(id) == <<"Image", id>>

PlainTags == {"Unit", "Boolean", "Integer", "Number", "String", "Array", "Object"}

EmptyMap == [k \in {} |-> Unit]
SeqsUpTo(S, n) == UNION {[1..m -> S] : m \in 0..n}
MapsOver(S) == UNION {[K -> S] : K \in SUBSET Keys}
Containers(S, n) ==
    {Array(items) : items \in SeqsUpTo(S, n)} \cup {Object(map) : map \in MapsOver(S)}

Scalars ==
    {Unit, Boolean(TRUE), Boolean(FALSE), Integer(1), Integer(41), Number(3),
     String(""), String("x"), Image(7)}

\* the input of the identity example: {"a": 1, "b": [true, "x"]}
ExampleObject ==
    Object([k \in Keys |->
        IF k = "a" THEN Integer(1) ELSE Array(<<Boolean(TRUE), String("x")>>)])

\* elements used to build values of nesting depth two and three
Nested1 ==
    {Integer(1), Array(<<>>), Object(EmptyMap), Array(<<Boolean(TRUE), String("x")>>),
     Object([k \in {"a"} |-> Number(3)]), Array(<<Image(7)>>)}
Nested2 ==
    {Unit, ExampleObject, Array(<<Array(<<>>), Object(EmptyMap)>>),
     Object([k \in {"b"} |-> Array(<<Image(7)>>)])}

Values ==
    Scalars \cup Containers(Scalars, MaxLen) \cup Containers(Nested1, MaxLen)
        \cup Containers(Nested2, MaxLen)

RECURSIVE IsPlain(_)
\* built only from Unit/Boolean/Integer/Number/String/Array/Object
IsPlain(v) ==
    /\ v[1] \in PlainTags
    /\ v[1] = "Array" => \A i \in 1..Len(v[2]) : IsPlain(v[2][i])
    /\ v[1] = "Object" => \A k \in DOMAIN v[2] : IsPlain(v[2][k])

\* Dynamic::type_name()
type_name(d) == d[1]

(***************************************************************************)
(* from_value_to_dynamic                                                   *)
(***************************************************************************)
RECURSIVE from_value_to_dynamic(_)

\* from_value_to_dynamic with the `_` arm giving unit instead of wrapping
from_value_to_dynamic_opaque_as_unit(value) ==
    CASE value[1] = "Unit" -> Ok(<<"()">>)
      [] value[1] = "Boolean" -> Ok(<<"bool", value[2]>>)
      [] value[1] = "Integer" -> Ok(<<"i64", value[2]>>)
      [] value[1] = "Number" -> Ok(<<"f64", value[2]>>)
      [] value[1] = "String" -> Ok(<<"string", value[2]>>)
      [] value[1] = "Array" ->
            LET arr == value[2]
                ds == [i \in 1..Len(arr) |-> from_value_to_dynamic(arr[i])]
            IN  Ok(<<"array", [i \in 1..Len(arr) |-> ds[i].val]>>)
      [] value[1] = "Object" ->
            LET map == value[2]
                ds == [k \in DOMAIN map |-> from_value_to_dynamic(map[k])]
            IN  Ok(<<"map", [k \in DOMAIN map |-> ds[k].val]>>)
      [] OTHER -> Ok(<<"()">>)

from_value_to_dynamic(value) ==
    CASE value[1] = "Unit" -> Ok(<<"()">>)
      [] value[1] = "Boolean" -> Ok(<<"bool", value[2]>>)
      [] value[1] = "Integer" -> Ok(<<"i64", value[2]>>)
      [] value[1] = "Number" -> Ok(<<"f64", value[2]>>)
      [] value[1] = "String" -> Ok(<<"string", value[2]>>)
      [] value[1] = "Array" ->
            LET arr == value[2]
                ds == [i \in 1..Len(arr) |-> from_value_to_dynamic(arr[i])]
                bad == {i \in 1..Len(arr) : ~ds[i].ok}
            IN  IF bad # {}
                THEN ds[CHOOSE i \in bad : \A j \in bad : i <= j]
                ELSE Ok(<<"array", [i \in 1..Len(arr) |-> ds[i].val]>>)
      [] value[1] = "Object" ->
            LET map == value[2]
                ds == [k \in DOMAIN map |-> from_value_to_dynamic(map[k])]
                bad == {i \in 1..Len(KeyOrder) :
                           KeyOrder[i] \in DOMAIN map /\ ~ds[KeyOrder[i]].ok}
            IN  IF bad # {}
                THEN ds[KeyOrder[CHOOSE i \in bad : \A j \in bad : i <= j]]
                ELSE Ok(<<"map", [k \in DOMAIN map |-> ds[k].val]>>)
      [] OTHER -> Ok(<<"AgentValue", value>>)

(***************************************************************************)
(* from_dynamic_to_value                                                   *)
(***************************************************************************)
RECURSIVE from_dynamic_to_value(_)

\* from_dynamic_to_value with one slip, named by `bug`:
\*   "float_as_int"     the float arm builds an Integer
\*   "unit_for_unknown" a type outside the arms becomes Unit instead of an error
from_dynamic_to_value_bug(value, bug) ==
    CASE value[1] = "()" -> Ok(Unit)
      [] value[1] = "bool" -> Ok(Boolean(value[2]))
      [] value[1] = "i64" -> Ok(Integer(value[2]))
      [] value[1] = "f64" ->
            IF bug = "float_as_int" THEN Ok(Integer(value[2])) ELSE Ok(Number(value[2]))
      [] value[1] = "string" -> Ok(String(value[2]))
      [] value[1] = "array" ->
            LET arr == value[2]
                rs == [i \in 1..Len(arr) |-> from_dynamic_to_value(arr[i])]
                bad == {i \in 1..Len(arr) : ~rs[i].ok}
            IN  IF bad # {}
                THEN IF bug = "last_error"
                     THEN rs[CHOOSE i \in bad : \A j \in bad : i >= j]
                     ELSE rs[CHOOSE i \in bad : \A j \in bad : i <= j]
                ELSE Ok(Array([i \in 1..Len(arr) |-> rs[i].val]))
      [] value[1] = "map" ->
            LET map == value[2]
                rs == [k \in DOMAIN map |-> from_dynamic_to_value(map[k])]
                bad == {i \in 1..Len(KeyOrder) :
                           KeyOrder[i] \in DOMAIN map /\ ~rs[KeyOrder[i]].ok}
            IN  IF bad # {}
                THEN IF bug = "last_error"
                     THEN rs[KeyOrder[CHOOSE i \in bad : \A j \in bad : i >= j]]
                     ELSE rs[KeyOrder[CHOOSE i \in bad : \A j \in bad : i <= j]]
                ELSE Ok(Object([k \in DOMAIN map |-> rs[k].val]))
      [] value[1] = "AgentValue" -> Ok(value[2])
      [] OTHER ->
            IF bug = "unit_for_unknown" THEN Ok(Unit)
            ELSE Err(InvalidValue("Unsupported Rhai data type", type_name(value)))

from_dynamic_to_value_float_as_int(value) ==
    from_dynamic_to_value_bug(value, "float_as_int")
from_dynamic_to_value_unit_for_unknown(value) ==
    from_dynamic_to_value_bug(value, "unit_for_unknown")
from_dynamic_to_value_last_error(value) ==
    from_dynamic_to_value_bug(value, "last_error")

from_dynamic_to_value(value) ==
    CASE value[1] = "()" -> Ok(Unit)
      [] value[1] = "bool" -> Ok(Boolean(value[2]))
      [] value[1] = "i64" -> Ok(Integer(value[2]))
      [] value[1] = "f64" -> Ok(Number(value[2]))
      [] value[1] = "string" -> Ok(String(value[2]))
      [] value[1] = "array" ->
            LET arr == value[2]
                rs == [i \in 1..Len(arr) |-> from_dynamic_to_value(arr[i])]
                bad == {i \in 1..Len(arr) : ~rs[i].ok}
            IN  IF bad # {}
                THEN rs[CHOOSE i \in bad : \A j \in bad : i <= j]
                ELSE Ok(Array([i \in 1..Len(arr) |-> rs[i].val]))
      [] value[1] = "map" ->
            LET map == value[2]
                rs == [k \in DOMAIN map |-> from_dynamic_to_value(map[k])]
                bad == {i \in 1..Len(KeyOrder) :
                           KeyOrder[i] \in DOMAIN map /\ ~rs[KeyOrder[i]].ok}
            IN  IF bad # {}
                THEN rs[KeyOrder[CHOOSE i \in bad : \A j \in bad : i <= j]]
                ELSE Ok(Object([k \in DOMAIN map |-> rs[k].val]))
      [] value[1] = "AgentValue" -> Ok(value[2])
      [] OTHER -> Err(InvalidValue("Unsupported Rhai data type", type_name(value)))

(***************************************************************************)
(* A converter run: an AgentValue is converted to a Dynamic and back       *)
(***************************************************************************)
CvInit ==
    /\ cv_pc = "value"
    /\ cv_in \in Values
    /\ cv_dyn = None
    /\ cv_out = None

ToDynamic ==
    /\ cv_pc = "value"
    /\ cv_dyn' = from_value_to_dynamic(cv_in)
    /\ cv_pc' = "dynamic"
    /\ UNCHANGED <<cv_in, cv_out>>

ToValue ==
    /\ cv_pc = "dynamic"
    /\ cv_dyn.ok
    /\ cv_out' = from_dynamic_to_value(cv_dyn.val)
    /\ cv_pc' = "done"
    /\ UNCHANGED <<cv_in, cv_dyn>>

(***************************************************************************)
(* The engine: OnceLock, compile, eval_ast_with_scope                      *)
(***************************************************************************)
\* RHAI_ENGINE.get_or_init(|| Engine::new())
get_engine(cell) == IF cell = "unset" THEN "engine" ELSE cell

\* the script texts a configuration may hold
Scripts == {"", "value", "value + 1", "undefined_name", "'c'", "[value, 'c']", "1 +"}

\* engine.compile(&script): "1 +" is an incomplete expression; an AST is
\* written as the text it was compiled from
compile(script) ==
    IF script = "1 +"
    THEN Err(<<"ParseError", "Expecting expression", script>>)
    ELSE Ok(script)

\* a variable read by a script: the scope's entry, or ErrorVariableNotFound
scope_get(scope, name) ==
    IF name \in DOMAIN scope
    THEN Ok(scope[name])
    ELSE Err(<<"ErrorVariableNotFound", name, "">>)

\* engine.eval_ast_with_scope::<Dynamic>(&mut scope, ast), scope a map from
\* names to Dynamic.  The scripts are expressions: a name reads the scope,
\* `+ 1` is defined on numbers and strings, 'c' is a char literal.
eval_ast_with_scope(scope, program) ==
    CASE program = "value" -> scope_get(scope, "value")
      [] program = "value + 1" ->
            LET v == scope_get(scope, "value")
            IN  IF ~v.ok THEN v
                ELSE CASE v.val[1] = "i64" -> Ok(<<"i64", v.val[2] + 1>>)
                       [] v.val[1] = "f64" -> Ok(<<"f64", v.val[2] + 2>>)
                       [] v.val[1] = "string" -> Ok(<<"string", v.val[2] \o "1">>)
                       [] OTHER ->
                            Err(<<"ErrorFunctionNotFound", "+", type_name(v.val)>>)
      [] program = "undefined_name" -> scope_get(scope, "undefined_name")
      [] program = "'c'" -> Ok(<<"char", "c">>)
      [] program = "[value, 'c']" ->
            LET v == scope_get(scope, "value")
            IN  IF ~v.ok THEN v ELSE Ok(<<"array", <<v.val, <<"char", "c">>>>>>)

(***************************************************************************)
(* Configuration: Option<AgentConfigs>, a map from config names to values  *)
(***************************************************************************)
ConfigMaps ==
    {EmptyMap, [k \in {CONFIG_SCRIPT} |-> Integer(1)]}
        \cup {[k \in {CONFIG_SCRIPT} |-> String(t)] : t \in Scripts}
Configs == {None} \cup {Some(c) : c \in ConfigMaps}

\* AgentConfigs::get_string(key)
get_string(c, key) ==
    IF key \notin DOMAIN c THEN Err(<<"ConfigError", "unknown config", key>>)
    ELSE IF c[key][1] # "String" THEN Err(<<"ConfigError", "not a string", key>>)
    ELSE Ok(c[key][2])

\* self.configs(): the configuration held in self.data
configs(config) ==
    IF config = None THEN Err(<<"ConfigError", "no configs", "">>) ELSE Ok(config[1])

\* what a call of process is given
Pins == {PORT_VALUE, "other"}
Inputs == {Integer(41), ExampleObject}

(***************************************************************************)
(* RhaiScriptAgent: the handlers, each giving what it leaves behind        *)
(***************************************************************************)
CompileError(c) == IoError("Rhai Compile Error", c.err[1])
RuntimeError(r) == IoError("Rhai Runtime Error", r.err[1])

\* set_script returning Ok when the script does not compile
set_script_swallow_compile_error(self_ast, cell, script) ==
    IF script = ""
    THEN [ast |-> None, result |-> Ok(None), engine |-> get_engine(cell),
          steps |-> <<"get_engine">>]
    ELSE LET c == compile(script)
         IN  [ast |-> IF c.ok THEN Some(c.val) ELSE self_ast, result |-> Ok(None),
              engine |-> get_engine(cell), steps |-> <<"get_engine", "compile">>]

\* set_script(&mut self, script)
set_script(self_ast, cell, script) ==
    IF script = ""
    THEN [ast |-> None, result |-> Ok(None), engine |-> get_engine(cell),
          steps |-> <<"get_engine">>]
    ELSE LET c == compile(script)
         IN  IF ~c.ok
             THEN [ast |-> self_ast, result |-> Err(CompileError(c)),
                   engine |-> get_engine(cell), steps |-> <<"get_engine", "compile">>]
             ELSE [ast |-> Some(c.val), result |-> Ok(None),
                   engine |-> get_engine(cell), steps |-> <<"get_engine", "compile">>]

\* config.as_ref().and_then(|c| c.get_string(CONFIG_SCRIPT).ok()).unwrap_or_default()
script_or_default(config) ==
    IF config # None /\ get_string(config[1], CONFIG_SCRIPT).ok
    THEN get_string(config[1], CONFIG_SCRIPT).val
    ELSE ""

\* new returning the error of get_string instead of taking the script as empty
new_propagate_read_error(cell, config) ==
    LET script == script_or_default(config)
        read == IF config = None THEN <<>> ELSE <<"get_string">>
        set == set_script(None, cell, script)
    IN  IF config # None /\ ~get_string(config[1], CONFIG_SCRIPT).ok
        THEN [created |-> FALSE, ast |-> None,
              result |-> Err(get_string(config[1], CONFIG_SCRIPT).err),
              engine |-> cell, steps |-> read]
        ELSE IF script # ""
        THEN IF set.result.ok
             THEN [created |-> TRUE, ast |-> set.ast, result |-> Ok(None),
                   engine |-> set.engine, steps |-> read \o <<"set_script">> \o set.steps]
             ELSE [created |-> FALSE, ast |-> None, result |-> set.result,
                   engine |-> set.engine, steps |-> read \o <<"set_script">> \o set.steps]
        ELSE [created |-> TRUE, ast |-> None, result |-> Ok(None),
              engine |-> cell, steps |-> read]

\* AsAgent::new(askit, id, def_name, config): `created` tells whether an
\* agent is returned, `ast` is the returned agent's field
new(cell, config) ==
    LET script == script_or_default(config)
        read == IF config = None THEN <<>> ELSE <<"get_string">>
        set == set_script(None, cell, script)
    IN  IF script # ""
        THEN IF set.result.ok
             THEN [created |-> TRUE, ast |-> set.ast, result |-> Ok(None),
                   engine |-> set.engine, steps |-> read \o <<"set_script">> \o set.steps]
             ELSE [created |-> FALSE, ast |-> None, result |-> set.result,
                   engine |-> set.engine, steps |-> read \o <<"set_script">> \o set.steps]
        ELSE [created |-> TRUE, ast |-> None, result |-> Ok(None),
              engine |-> cell, steps |-> read]

\* configs_changed with one slip, named by `bug`:
\*   "ignore_empty"           empty text leaves the program in place
\*   "swallow_compile_error"  a compile failure returns Ok
\*   "clear_on_compile_error" a compile failure clears the program
\*   "keep_existing"          a program already held is not replaced
\*   "clear_first"            the program is cleared before the text is read
configs_changed_bug(self_ast, cell, config, bug) ==
    LET engine == get_engine(cell)
        cs == configs(config)
        read == get_string(cs.val, CONFIG_SCRIPT)
        c == compile(read.val)
    IN  IF ~cs.ok
        THEN [ast |-> IF bug = "clear_first" THEN None ELSE self_ast,
              result |-> Err(cs.err), engine |-> engine,
              steps |-> <<"get_engine", "configs">>]
        ELSE IF ~read.ok
        THEN [ast |-> IF bug = "clear_first" THEN None ELSE self_ast,
              result |-> Err(read.err), engine |-> engine,
              steps |-> <<"get_engine", "configs", "get_string">>]
        ELSE IF read.val = ""
        THEN [ast |-> IF bug = "ignore_empty" THEN self_ast ELSE None,
              result |-> Ok(None), engine |-> engine,
              steps |-> <<"get_engine", "configs", "get_string">>]
        ELSE IF ~c.ok
        THEN [ast |-> IF bug = "clear_on_compile_error" THEN None ELSE self_ast,
              result |-> IF bug = "swallow_compile_error" THEN Ok(None)
                         ELSE Err(CompileError(c)),
              engine |-> engine,
              steps |-> <<"get_engine", "configs", "get_string", "compile">>]
        ELSE [ast |-> IF bug = "keep_existing" /\ self_ast # None THEN self_ast
                      ELSE Some(c.val),
              result |-> Ok(None), engine |-> engine,
              steps |-> <<"get_engine", "configs", "get_string", "compile">>]

configs_changed_ignore_empty(self_ast, cell, config) ==
    configs_changed_bug(self_ast, cell, config, "ignore_empty")
configs_changed_swallow_compile_error(self_ast, cell, config) ==
    configs_changed_bug(self_ast, cell, config, "swallow_compile_error")
configs_changed_clear_on_compile_error(self_ast, cell, config) ==
    configs_changed_bug(self_ast, cell, config, "clear_on_compile_error")
configs_changed_keep_existing(self_ast, cell, config) ==
    configs_changed_bug(self_ast, cell, config, "keep_existing")
configs_changed_clear_first(self_ast, cell, config) ==
    configs_changed_bug(self_ast, cell, config, "clear_first")

\* AsAgent::configs_changed(&mut self); config is what self.data holds when
\* the host invokes the hook
configs_changed(self_ast, cell, config) ==
    LET engine == get_engine(cell)
        cs == configs(config)
        read == get_string(cs.val, CONFIG_SCRIPT)
        c == compile(read.val)
    IN  IF ~cs.ok
        THEN [ast |-> self_ast, result |-> Err(cs.err), engine |-> engine,
              steps |-> <<"get_engine", "configs">>]
        ELSE IF ~read.ok
        THEN [ast |-> self_ast, result |-> Err(read.err), engine |-> engine,
              steps |-> <<"get_engine", "configs", "get_string">>]
        ELSE IF read.val = ""
        THEN [ast |-> None, result |-> Ok(None), engine |-> engine,
              steps |-> <<"get_engine", "configs", "get_string">>]
        ELSE IF ~c.ok
        THEN [ast |-> self_ast, result |-> Err(CompileError(c)), engine |-> engine,
              steps |-> <<"get_engine", "configs", "get_string", "compile">>]
        ELSE [ast |-> Some(c.val), result |-> Ok(None), engine |-> engine,
              steps |-> <<"get_engine", "configs", "get_string", "compile">>]

\* let mut scope = Scope::new(); scope.push("value", d)
new_scope(d) == [n \in {"value"} |-> d]

\* try_output putting the value ahead of what went out before
try_output_first(out, port, value) == <<<<port, value>>>> \o out

\* self.try_output(ctx, port, value): the value goes out on the port, after
\* what went out before
try_output(out, port, value) == Append(out, <<port, value>>)

\* process with one slip, named by `bug`:
\*   "emit_input"        the input goes out instead of the script's result
\*   "pass_through"      without a program the input is passed through
\*   "swallow_runtime"   a runtime error emits Unit and returns Ok
\*   "kept_scope"        the scope outlives the call, and the script finds the
\*                       result of the call before bound to `value`
process_bug(self_ast, cell, out, value, bug) ==
    IF self_ast = None
    THEN [result |-> Ok(None),
          outputs |-> IF bug = "pass_through" THEN try_output(out, PORT_VALUE, value)
                      ELSE out,
          engine |-> cell, steps |-> <<>>]
    ELSE LET engine == get_engine(cell)
             d == IF bug = "kept_scope" /\ out # <<>>
                  THEN from_value_to_dynamic(out[Len(out)][2])
                  ELSE from_value_to_dynamic(value)
             r == eval_ast_with_scope(new_scope(d.val), self_ast[1])
             out_value == from_dynamic_to_value(r.val)
         IN  IF ~d.ok
             THEN [result |-> Err(d.err), outputs |-> out, engine |-> engine,
                   steps |-> <<"get_engine", "from_value_to_dynamic">>]
             ELSE IF ~r.ok
             THEN [result |-> IF bug = "swallow_runtime" THEN Ok(None)
                              ELSE Err(RuntimeError(r)),
                   outputs |-> IF bug = "swallow_runtime"
                               THEN try_output(out, PORT_VALUE, Unit) ELSE out,
                   engine |-> engine,
                   steps |-> <<"get_engine", "from_value_to_dynamic",
                               "eval_ast_with_scope">>]
             ELSE IF ~out_value.ok
             THEN [result |-> Err(out_value.err), outputs |-> out, engine |-> engine,
                   steps |-> <<"get_engine", "from_value_to_dynamic",
                               "eval_ast_with_scope", "from_dynamic_to_value">>]
             ELSE [result |-> Ok(None),
                   outputs |-> try_output(out, PORT_VALUE,
                                   IF bug = "emit_input" THEN value ELSE out_value.val),
                   engine |-> engine,
                   steps |-> <<"get_engine", "from_value_to_dynamic",
                               "eval_ast_with_scope", "from_dynamic_to_value",
                               "try_output">>]

process_emit_input(self_ast, cell, out, value) ==
    process_bug(self_ast, cell, out, value, "emit_input")
process_pass_through(self_ast, cell, out, value) ==
    process_bug(self_ast, cell, out, value, "pass_through")
process_swallow_runtime(self_ast, cell, out, value) ==
    process_bug(self_ast, cell, out, value, "swallow_runtime")
process_kept_scope(self_ast, cell, out, value) ==
    process_bug(self_ast, cell, out, value, "kept_scope")

\* AsAgent::process(&mut self, ctx, _pin, value); out is what has been
\* emitted so far
process(self_ast, cell, out, value) ==
    IF self_ast = None
    THEN [result |-> Ok(None), outputs |-> out, engine |-> cell, steps |-> <<>>]
    ELSE LET engine == get_engine(cell)
             d == from_value_to_dynamic(value)
             r == eval_ast_with_scope(new_scope(d.val), self_ast[1])
             out_value == from_dynamic_to_value(r.val)
         IN  IF ~d.ok
             THEN [result |-> Err(d.err), outputs |-> out, engine |-> engine,
                   steps |-> <<"get_engine", "from_value_to_dynamic">>]
             ELSE IF ~r.ok
             THEN [result |-> Err(RuntimeError(r)), outputs |-> out, engine |-> engine,
                   steps |-> <<"get_engine", "from_value_to_dynamic",
                               "eval_ast_with_scope">>]
             ELSE IF ~out_value.ok
             THEN [result |-> Err(out_value.err), outputs |-> out, engine |-> engine,
                   steps |-> <<"get_engine", "from_value_to_dynamic",
                               "eval_ast_with_scope", "from_dynamic_to_value">>]
             ELSE [result |-> Ok(None),
                   outputs |-> try_output(out, PORT_VALUE, out_value.val),
                   engine |-> engine,
                   steps |-> <<"get_engine", "from_value_to_dynamic",
                               "eval_ast_with_scope", "from_dynamic_to_value",
                               "try_output">>]

(***************************************************************************)
(* The agent specification: the host constructs one agent, then invokes    *)
(* its hooks one at a time                                                 *)
(***************************************************************************)
\* the threads that reach a get_engine call: one in new (l.44 via set_script),
\* one in configs_changed (l.78), one in process (l.100), and one constructing a
\* second agent
Callers == {"new", "configs_changed", "process", "peer.new"}

\* the handlers that take &mut self
Borrowers == {"configs_changed", "process"}

\* no second agent, nobody holds the borrow, nobody is inside get_engine
OtherInit ==
    /\ peer = [agent |-> "none", ast |-> None, result |-> Ok(None), outputs |-> <<>>,
               calls |-> <<>>]
    /\ running = [h \in Borrowers |-> None]
    /\ inits = 0
    /\ callers = [t \in Callers |-> [pc |-> "idle", seen |-> 0]]

\* Engine::new() has run once more if the handler found the cell unset
counted(n, cell, engine) == IF engine = cell THEN n ELSE n + 1

Init ==
    /\ OtherInit
    /\ RHAI_ENGINE = "unset"
    /\ agent = "none"
    /\ ast = None
    /\ op = <<"none">>
    /\ result = Ok(None)
    /\ steps = <<>>
    /\ outputs = <<>>
    /\ calls = <<>>
    /\ cv_pc = "idle"
    /\ cv_in = None
    /\ cv_dyn = None
    /\ cv_out = None

New(config) ==
    /\ agent = "none"
    /\ LET n == new(RHAI_ENGINE, config)
       IN  /\ agent' = IF n.created THEN "alive" ELSE "none"
           /\ ast' = n.ast
           /\ result' = n.result
           /\ steps' = n.steps
           /\ RHAI_ENGINE' = n.engine
           /\ inits' = counted(inits, RHAI_ENGINE, n.engine)
    /\ op' = <<"new", config>>
    /\ UNCHANGED <<outputs, calls>>
    /\ UNCHANGED <<cvVars, peer, running, callers>>

ConfigsChanged(config) ==
    /\ agent = "alive"
    /\ LET n == configs_changed(ast, RHAI_ENGINE, config)
       IN  /\ ast' = n.ast
           /\ result' = n.result
           /\ steps' = n.steps
           /\ RHAI_ENGINE' = n.engine
           /\ inits' = counted(inits, RHAI_ENGINE, n.engine)
    /\ op' = <<"configs_changed", config>>
    /\ UNCHANGED <<agent, outputs, calls>>
    /\ UNCHANGED <<cvVars, peer, running, callers>>

Process(pin, value) ==
    /\ agent = "alive"
    /\ Len(calls) < MaxCalls
    /\ LET n == process(ast, RHAI_ENGINE, outputs, value)
       IN  /\ result' = n.result
           /\ steps' = n.steps
           /\ outputs' = n.outputs
           /\ RHAI_ENGINE' = n.engine
           /\ inits' = counted(inits, RHAI_ENGINE, n.engine)
    /\ op' = <<"process", pin>>
    /\ calls' = Append(calls, <<ast, value>>)
    /\ UNCHANGED <<agent, ast>>
    /\ UNCHANGED <<cvVars, peer, running, callers>>

Next ==
    \/ \E config \in Configs : New(config)
    \/ \E config \in Configs : ConfigsChanged(config)
    \/ \E pin \in Pins, value \in Inputs : Process(pin, value)

Spec == Init /\ [][Next]_vars

(***************************************************************************)
(* get_engine under concurrent callers.  The handlers above take the call  *)
(* as one step; here each thread's call is split where OnceLock lets       *)
(* another thread run in between.                                          *)
(***************************************************************************)
\* a thread is inside the initializer closure
Initializing == \E t \in Callers : callers[t].pc = "init"

\* get_or_init without the Once: every thread that finds the cell unset runs
\* the initializer
get_or_init_unsynchronized(cell, initializing) ==
    IF cell # "unset" THEN "get" ELSE "init"

\* RHAI_ENGINE.get_or_init(..) as a caller meets it: the cell is set and is
\* returned ("get"), another thread is running the initializer and this one
\* blocks ("wait"), or this thread runs the initializer ("init")
get_or_init(cell, initializing) ==
    IF cell # "unset" THEN "get"
    ELSE IF initializing THEN "wait" ELSE "init"

\* thread t calls get_engine()
EnterGetEngine(t) ==
    /\ callers[t].pc = "idle"
    /\ LET path == get_or_init(RHAI_ENGINE, Initializing)
       IN  callers' = [callers EXCEPT ![t] =
                          IF path = "get" THEN [pc |-> "have", seen |-> inits]
                          ELSE [pc |-> path, seen |-> @.seen]]
    /\ UNCHANGED <<RHAI_ENGINE, inits>>

\* || { let engine = Engine::new(); engine }: the n-th run makes engine n, which
\* is stored in the cell and returned
RunInitializer(t) ==
    /\ callers[t].pc = "init"
    /\ inits' = inits + 1
    /\ RHAI_ENGINE' = get_engine(RHAI_ENGINE)
    /\ callers' = [callers EXCEPT ![t] = [pc |-> "have", seen |-> inits + 1]]

\* a blocked thread gets the engine once the cell is set
WakeGetEngine(t) ==
    /\ callers[t].pc = "wait"
    /\ RHAI_ENGINE # "unset"
    /\ callers' = [callers EXCEPT ![t] = [pc |-> "have", seen |-> inits]]
    /\ UNCHANGED <<RHAI_ENGINE, inits>>

\* engine.compile(&script) / engine.eval_ast_with_scope(..): both take &Engine;
\* the handler returns and the thread may call again
UseEngine(t) ==
    /\ callers[t].pc = "have"
    /\ callers' = [callers EXCEPT ![t].pc = "idle"]
    /\ UNCHANGED <<RHAI_ENGINE, inits>>

engineFrame == <<agent, ast, op, result, steps, outputs, calls, cvVars, peer, running>>

NextEngine ==
    \/ \E t \in Callers : EnterGetEngine(t) /\ UNCHANGED engineFrame
    \/ \E t \in Callers : RunInitializer(t) /\ UNCHANGED engineFrame
    \/ \E t \in Callers : WakeGetEngine(t) /\ UNCHANGED engineFrame
    \/ \E t \in Callers : UseEngine(t) /\ UNCHANGED engineFrame

SpecEngine == Init /\ [][NextEngine]_vars

(***************************************************************************)
(* process and configs_changed requested concurrently on one agent.  Each  *)
(* handler is split into taking the &mut self borrow, with its arguments,  *)
(* and running its body to the end; a request made while the borrow is     *)
(* held waits.                                                             *)
(***************************************************************************)
\* handlers that do not need the borrow to start
borrow_mut_unchecked(held) == TRUE

\* &mut self (l.77, l.92): the handler starts only while no handler holds the
\* agent
borrow_mut(held) == \A h \in Borrowers : held[h] = None

\* process is entered: let Some(ast) = &self.ast refers to the program held now
BeginProcess(value) ==
    /\ agent = "alive"
    /\ Len(calls) < MaxCalls
    /\ borrow_mut(running)
    /\ running' = [running EXCEPT !["process"] = Some(<<ast, value>>)]
    /\ UNCHANGED <<agentVars, inits>>

\* the body of process runs against self.ast and returns
EndProcess ==
    /\ running["process"] # None
    /\ LET call == running["process"][1]
           n == process(ast, RHAI_ENGINE, outputs, call[2])
       IN  /\ result' = n.result
           /\ steps' = n.steps
           /\ outputs' = n.outputs
           /\ RHAI_ENGINE' = n.engine
           /\ inits' = counted(inits, RHAI_ENGINE, n.engine)
           /\ calls' = Append(calls, call)
    /\ op' = <<"process", PORT_VALUE>>
    /\ running' = [running EXCEPT !["process"] = None]
    /\ UNCHANGED <<agent, ast>>

\* configs_changed is entered
BeginConfigsChanged(config) ==
    /\ agent = "alive"
    /\ borrow_mut(running)
    /\ running' = [running EXCEPT !["configs_changed"] = Some(config)]
    /\ UNCHANGED <<agentVars, inits>>

\* the body of configs_changed runs and returns
EndConfigsChanged ==
    /\ running["configs_changed"] # None
    /\ LET config == running["configs_changed"][1]
           n == configs_changed(ast, RHAI_ENGINE, config)
       IN  /\ ast' = n.ast
           /\ result' = n.result
           /\ steps' = n.steps
           /\ RHAI_ENGINE' = n.engine
           /\ inits' = counted(inits, RHAI_ENGINE, n.engine)
           /\ op' = <<"configs_changed", config>>
    /\ running' = [running EXCEPT !["configs_changed"] = None]
    /\ UNCHANGED <<agent, outputs, calls>>

concFrame == <<cvVars, peer, callers>>

\* the configurations requested here: a script that clears the program, two
\* that compile and one that does not
ConcConfigs ==
    {Some([k \in {CONFIG_SCRIPT} |-> String(t)]) : t \in {"", "value", "value + 1", "1 +"}}

NextConc ==
    \/ \E config \in ConcConfigs : New(config)
    \/ \E value \in Inputs : BeginProcess(value) /\ UNCHANGED concFrame
    \/ EndProcess /\ UNCHANGED concFrame
    \/ \E config \in ConcConfigs : BeginConfigsChanged(config) /\ UNCHANGED concFrame
    \/ EndConfigsChanged /\ UNCHANGED concFrame

SpecConc == Init /\ [][NextConc]_vars

(***************************************************************************)
(* Two agents.  A second RhaiScriptAgent is constructed and fed inputs     *)
(* beside the first; the two share RHAI_ENGINE and nothing else.  The      *)
(* second keeps, for each call, the program, the input, the Result         *)
(* returned and what the call emitted.                                     *)
(***************************************************************************)
PeerNew(config) ==
    /\ peer.agent = "none"
    /\ LET n == new(RHAI_ENGINE, config)
       IN  /\ peer' = [peer EXCEPT !.agent = IF n.created THEN "alive" ELSE "none",
                                   !.ast = n.ast,
                                   !.result = n.result]
           /\ RHAI_ENGINE' = n.engine
           /\ inits' = counted(inits, RHAI_ENGINE, n.engine)
    /\ UNCHANGED <<agent, ast, op, result, steps, outputs, calls>>

PeerProcess(value) ==
    /\ peer.agent = "alive"
    /\ Len(peer.calls) < MaxCalls
    /\ LET n == process(peer.ast, RHAI_ENGINE, peer.outputs, value)
           emitted == SubSeq(n.outputs, Len(peer.outputs) + 1, Len(n.outputs))
       IN  /\ peer' = [peer EXCEPT !.result = n.result,
                                   !.outputs = n.outputs,
                                   !.calls = Append(@, <<peer.ast, value, n.result, emitted>>)]
           /\ RHAI_ENGINE' = n.engine
           /\ inits' = counted(inits, RHAI_ENGINE, n.engine)
    /\ UNCHANGED <<agent, ast, op, result, steps, outputs, calls>>

pairFrame == <<cvVars, running, callers>>

NextPair ==
    \/ \E config \in Configs : New(config)
    \/ \E value \in Inputs : Process(PORT_VALUE, value)
    \/ \E config \in Configs : PeerNew(config) /\ UNCHANGED pairFrame
    \/ \E value \in Inputs : PeerProcess(value) /\ UNCHANGED pairFrame

SpecPair == Init /\ [][NextPair]_vars

(***************************************************************************)
(* The converter specification                                             *)
(***************************************************************************)
InitCv ==
    /\ OtherInit
    /\ RHAI_ENGINE = "unset"
    /\ agent = "none"
    /\ ast = None
    /\ op = <<"none">>
    /\ result = Ok(None)
    /\ steps = <<>>
    /\ outputs = <<>>
    /\ calls = <<>>
    /\ CvInit

NextCv ==
    \/ ToDynamic /\ UNCHANGED <<agentVars, otherVars>>
    \/ ToValue /\ UNCHANGED <<agentVars, otherVars>>

SpecCv == InitCv /\ [][NextCv]_vars

(***************************************************************************)
(* A from-native run on the result of a script: the Dynamic is whatever    *)
(* the script evaluated to, types without an AgentValue included           *)
(***************************************************************************)
\* leaves: an integer, and the two Rhai types "char" and "Fn" that no arm
\* of from_dynamic_to_value accepts
DynLeaves == {<<"i64", 1>>, <<"char", "c">>, <<"Fn", "f">>}

DynContainers(S, n) ==
    {<<"array", items>> : items \in SeqsUpTo(S, n)} \cup {<<"map", map>> : map \in MapsOver(S)}

\* containers of leaves that are nested once more
DynInner ==
    {<<"array", <<>>>>,
     <<"array", <<<<"i64", 1>>, <<"Fn", "f">>>>>>,
     <<"map", [k \in Keys |-> IF k = "a" THEN <<"Fn", "f">> ELSE <<"char", "c">>]>>,
     <<"map", [k \in {"b"} |-> <<"i64", 1>>]>>}

Dynamics == DynLeaves \cup DynContainers(DynLeaves \cup DynInner, MaxLen)

InitDyn ==
    /\ OtherInit
    /\ RHAI_ENGINE = "unset"
    /\ agent = "none"
    /\ ast = None
    /\ op = <<"none">>
    /\ result = Ok(None)
    /\ steps = <<>>
    /\ outputs = <<>>
    /\ calls = <<>>
    /\ cv_pc = "dynamic"
    /\ cv_in = None
    /\ cv_dyn \in {Ok(d) : d \in Dynamics}
    /\ cv_out = None

NextDyn == ToValue /\ UNCHANGED <<agentVars, otherVars>>

SpecDyn == InitDyn /\ [][NextDyn]_vars

TypeOK ==
    /\ RHAI_ENGINE \in {"unset", "engine"}
    /\ agent \in {"none", "alive"}
    /\ ast \in {None} \cup {Some(t) : t \in Scripts \ {"", "1 +"}}
    /\ result.ok \in BOOLEAN
    /\ Len(outputs) <= Len(calls)
    /\ Len(calls) <= MaxCalls

(***************************************************************************)
(* What the claims about the agent speak of                                *)
(***************************************************************************)
\* the configuration whose script text is t
ConfigWith(t) == Some([k \in {CONFIG_SCRIPT} |-> String(t)])

\* the step is a call of new, or of configs_changed, under the text t: each
\* handler leaves its name and what it was given in op
IsNewWith(t) == op' = <<"new", ConfigWith(t)>>
IsConfigsChangedWith(t) == op' = <<"configs_changed", ConfigWith(t)>>

\* execute(program, {value: to-native(input)})
Execute(program, input) ==
    eval_ast_with_scope([n \in {"value"} |-> from_value_to_dynamic(input).val], program)

\* the invocation made last: the program held when it began, and its input
LastCall == calls[Len(calls)]
LastOutput == outputs[Len(outputs)]

\* the step is a process call given `value`: only process is logged in calls
IsProcessStep(value) == calls' = Append(calls, <<ast, value>>)

(***************************************************************************)
(* C2  A process call on a Ready agent whose script execution and result   *)
(* conversion both succeed emits exactly one value, on the port `value`,   *)
(* equal to from-native(execute(program, {value: to-native(input)})); with *)
(* the identity script what is emitted equals the input.                   *)
(***************************************************************************)
C2_ProcessEmits ==
    [][\A value \in Inputs :
        (ast # None /\ IsProcessStep(value)) =>
            LET r == Execute(ast[1], value)
                v == from_dynamic_to_value(r.val)
            IN  (r.ok /\ v.ok) =>
                    /\ outputs' = Append(outputs, <<"value", v.val>>)
                    /\ ast[1] = "value" => outputs'[Len(outputs')] = <<"value", value>>
      ]_vars

\* the identity script has just been run on the example object
C2_Witness ==
    /\ op[1] = "process"
    /\ result.ok
    /\ Len(calls) > 0 /\ LastCall = <<Some("value"), ExampleObject>>
    /\ Len(outputs) > 0 /\ LastOutput = <<"value", ExampleObject>>

(***************************************************************************)
(* C3  Empty script.  new with empty script text, and configs_changed when *)
(* the configured text is empty (from any state), return success and leave *)
(* no compiled program; while no program is held a process call emits      *)
(* nothing, and a program is held again only once a configuration with     *)
(* non-empty text has been compiled successfully.                          *)
(***************************************************************************)
C3_EmptyScript ==
    [][/\ IsNewWith("") => (agent' = "alive" /\ ast' = None /\ result'.ok)
       /\ IsConfigsChangedWith("") => (ast' = None /\ result'.ok)
       /\ \A value \in Inputs :
            (ast = None /\ IsProcessStep(value)) => outputs' = outputs
       /\ (agent = "alive" /\ ast = None /\ ast' # None) =>
            \E t \in Scripts \ {""} : IsConfigsChangedWith(t) /\ result'.ok
      ]_vars

\* a Ready agent that emitted was reconfigured with empty text, and the
\* input processed afterwards produced nothing
C3_Witness ==
    /\ op[1] = "process"
    /\ ast = None
    /\ result.ok
    /\ Len(calls) = 2
    /\ calls[1][1] # None
    /\ calls[2][1] = None
    /\ Len(outputs) = 1

(***************************************************************************)
(* C4  A process call on an agent holding no program is a no-op, whatever  *)
(* the input and the port: it returns success, emits nothing, calls        *)
(* neither the engine nor a converter, and leaves the agent Uncompiled.    *)
(***************************************************************************)
C4_UncompiledNoOp ==
    [][\A pin \in Pins, value \in Inputs :
        (ast = None /\ IsProcessStep(value) /\ op' = <<"process", pin>>) =>
            /\ result' = Ok(None)
            /\ outputs' = outputs
            /\ steps' = <<>>
            /\ RHAI_ENGINE' = RHAI_ENGINE
            /\ ast' = None
      ]_vars

\* an agent built without a script was given an input on another port
C4_Witness ==
    /\ op = <<"process", "other">>
    /\ Len(calls) > 0 /\ LastCall = <<None, ExampleObject>>
    /\ RHAI_ENGINE = "unset"
    /\ outputs = <<>>

(***************************************************************************)
(* C5  A compile failure is reported.  When non-empty script text does not *)
(* compile, new returns the compile error and no agent exists afterwards,  *)
(* and configs_changed returns the compile error; new leaves an agent      *)
(* behind exactly when it returns success.                                 *)
(***************************************************************************)
C5_CompileFailureReported ==
    [][/\ \A t \in Scripts \ {""} :
            ~compile(t).ok =>
                /\ IsNewWith(t) =>
                        /\ result' = Err(CompileError(compile(t)))
                        /\ agent' = "none"
                /\ IsConfigsChangedWith(t) =>
                        result' = Err(CompileError(compile(t)))
       /\ op'[1] = "new" => (result'.ok <=> agent' = "alive")
      ]_vars

\* construction was given a script that does not compile
C5_Witness ==
    /\ op = <<"new", ConfigWith("1 +")>>
    /\ agent = "none"
    /\ ~result.ok
    /\ result.err[2] = "Rhai Compile Error"
    /\ RHAI_ENGINE = "engine"

(***************************************************************************)
(* C6  A runtime failure is per-invocation.  A process call whose script   *)
(* execution fails returns the runtime error, emits nothing and leaves the *)
(* program in place; a process call that follows a failed one, on an input *)
(* for which the script succeeds, emits its normal output.                 *)
(***************************************************************************)
C6_RuntimeFailure ==
    [][\A value \in Inputs :
        (ast # None /\ IsProcessStep(value)) =>
            LET r == Execute(ast[1], value)
                v == from_dynamic_to_value(r.val)
            IN  /\ ~r.ok =>
                    /\ result' = Err(RuntimeError(r))
                    /\ outputs' = outputs
                    /\ ast' = ast
                    /\ agent' = "alive"
                /\ (op[1] = "process" /\ ~result.ok /\ result.err[2] = "Rhai Runtime Error"
                        /\ r.ok /\ v.ok) =>
                    /\ result'.ok
                    /\ outputs' = Append(outputs, <<"value", v.val>>)
      ]_vars

\* `value + 1` failed on the example object, then gave 42 for 41
C6_Witness ==
    /\ op[1] = "process"
    /\ result.ok
    /\ calls = <<<<Some("value + 1"), ExampleObject>>, <<Some("value + 1"), Integer(41)>>>>
    /\ outputs = <<<<"value", Integer(42)>>>>

(***************************************************************************)
(* C7  A conversion failure is per-invocation.  When the script runs and   *)
(* returns a native value that holds, at the top or nested, a type outside *)
(* unit, bool, integer, float, string, array, map and a wrapped            *)
(* AgentValue, process returns the error naming such a type, emits nothing *)
(* and leaves the program in place.                                        *)
(***************************************************************************)
ConvertibleTypes == {"()", "bool", "i64", "f64", "string", "array", "map", "AgentValue"}

RECURSIVE UnsupportedTypes(_)
\* the type names inside d that have no AgentValue
UnsupportedTypes(d) ==
    CASE d[1] = "array" -> UNION {UnsupportedTypes(d[2][i]) : i \in 1..Len(d[2])}
      [] d[1] = "map" -> UNION {UnsupportedTypes(d[2][k]) : k \in DOMAIN d[2]}
      [] d[1] \in ConvertibleTypes \ {"array", "map"} -> {}
      [] OTHER -> {d[1]}

C7_ConversionFailure ==
    [][\A value \in Inputs :
        (ast # None /\ IsProcessStep(value)) =>
            LET r == Execute(ast[1], value)
            IN  (r.ok /\ UnsupportedTypes(r.val) # {}) =>
                    /\ ~result'.ok
                    /\ result'.err[1] = "InvalidValue"
                    /\ result'.err[2] = "Unsupported Rhai data type"
                    /\ result'.err[3] \in UnsupportedTypes(r.val)
                    /\ outputs' = outputs
                    /\ ast' = ast
                    /\ agent' = "alive"
      ]_vars

\* the script returned an array holding a char
C7_Witness ==
    /\ op[1] = "process"
    /\ result = Err(InvalidValue("Unsupported Rhai data type", "char"))
    /\ Len(calls) > 0 /\ LastCall = <<Some("[value, 'c']"), Integer(41)>>
    /\ ast = Some("[value, 'c']")

(***************************************************************************)
(* C8  Ordering.  What one agent has emitted is, in the order of the       *)
(* invocations, what each invocation emits: nothing for one that fails or  *)
(* finds no program, one value otherwise.                                  *)
(***************************************************************************)
\* what the invocation c = <<program held, input>> emits
EmissionOf(c) ==
    IF c[1] = None THEN <<>>
    ELSE LET r == Execute(c[1][1], c[2])
             v == from_dynamic_to_value(r.val)
         IN  IF r.ok /\ v.ok THEN <<<<"value", v.val>>>> ELSE <<>>

RECURSIVE EmissionsOf(_)
EmissionsOf(cs) ==
    IF cs = <<>> THEN <<>>
    ELSE EmissionsOf(SubSeq(cs, 1, Len(cs) - 1)) \o EmissionOf(cs[Len(cs)])

C8_Ordering == outputs = EmissionsOf(calls)

\* the identity script was given 41, the example object and 41 again
C8_Witness ==
    /\ calls = <<<<Some("value"), Integer(41)>>, <<Some("value"), ExampleObject>>,
                 <<Some("value"), Integer(41)>>>>
    /\ outputs = <<<<"value", Integer(41)>>, <<"value", ExampleObject>>,
                   <<"value", Integer(41)>>>>

(***************************************************************************)
(* C9  As claimed: after configs_changed has failed to compile non-empty   *)
(* script text, the agent holds no compiled program.                       *)
(***************************************************************************)
C9_UncompiledAfterFailedRecompile ==
    \A t \in Scripts \ {""} :
        (~compile(t).ok /\ op = <<"configs_changed", ConfigWith(t)>>) => ast = None

(***************************************************************************)
(* C9, amended: a configs_changed call whose non-empty script text fails   *)
(* to compile returns the error and leaves the program slot as it was: the *)
(* agent is Uncompiled afterwards only if it was Uncompiled before, and a  *)
(* Ready agent keeps its program.                                          *)
(***************************************************************************)
C9_FailedRecompileKeepsProgram ==
    [][\A t \in Scripts \ {""} :
        (~compile(t).ok /\ IsConfigsChangedWith(t)) =>
            /\ ~result'.ok
            /\ ast' = ast
      ]_vars

\* a Ready agent has been given a script that does not compile
C9_Witness ==
    /\ op = <<"configs_changed", ConfigWith("1 +")>>
    /\ ~result.ok
    /\ result.err[2] = "Rhai Compile Error"
    /\ ast = Some("value")

(***************************************************************************)
(* C10  A successful reconfiguration replaces the program.  configs_changed*)
(* with non-empty text that compiles returns success and leaves the agent  *)
(* Ready with the program compiled from that text, whatever it held        *)
(* before; a process call leaves the program in place and emits what the   *)
(* program held at that moment emits.                                      *)
(***************************************************************************)
C10_ReconfigurationReplaces ==
    [][/\ \A t \in Scripts \ {""} :
            (compile(t).ok /\ IsConfigsChangedWith(t)) =>
                /\ result'.ok
                /\ ast' = Some(compile(t).val)
       /\ \A value \in Inputs :
            IsProcessStep(value) =>
                /\ ast' = ast
                /\ outputs' = outputs \o EmissionOf(<<ast, value>>)
      ]_vars

\* the identity script was replaced by `value + 1` between two inputs
C10_Witness ==
    /\ op[1] = "process"
    /\ ast = Some("value + 1")
    /\ calls = <<<<Some("value"), Integer(41)>>, <<Some("value + 1"), Integer(41)>>>>
    /\ outputs = <<<<"value", Integer(41)>>, <<"value", Integer(42)>>>>

(***************************************************************************)
(* C16  A failed reconfiguration leaves the program unchanged.  Whenever   *)
(* configs_changed returns an error (no configuration, the script key      *)
(* missing or not a string, or text that does not compile) the program     *)
(* slot is what it was before the call, and nothing has been emitted.      *)
(***************************************************************************)
C16_FailedReconfigurationFrame ==
    [][(op'[1] = "configs_changed" /\ ~result'.ok) =>
            /\ ast' = ast
            /\ agent' = agent
            /\ outputs' = outputs
      ]_vars

\* a Ready agent that had emitted was reconfigured with the script key missing
C16_Witness ==
    /\ op = <<"configs_changed", Some(EmptyMap)>>
    /\ ~result.ok
    /\ result.err[1] = "ConfigError"
    /\ ast = Some("value + 1")
    /\ outputs = <<<<"value", Integer(42)>>>>

(***************************************************************************)
(* C17  Construction fails only on a compile error.  Given no              *)
(* configuration, or one whose script key is missing or not a string, new  *)
(* returns an agent holding no program; configs_changed returns the read   *)
(* error for the same configurations.                                      *)
(***************************************************************************)
\* the configurations from which no script text can be read
Unreadable == {None, Some(EmptyMap), Some([k \in {CONFIG_SCRIPT} |-> Integer(1)])}

C17_ConstructionReadErrors ==
    /\ (op[1] = "new" /\ ~result.ok) => result.err[2] = "Rhai Compile Error"
    /\ \A config \in Unreadable :
        /\ op = <<"new", config>> => (result.ok /\ agent = "alive" /\ ast = None)
        /\ op = <<"configs_changed", config>> =>
                (~result.ok /\ result.err[1] = "ConfigError")

\* an agent was constructed from a configuration whose script is not a string
C17_Witness ==
    /\ op = <<"new", Some([k \in {CONFIG_SCRIPT} |-> Integer(1)])>>
    /\ agent = "alive"
    /\ ast = None
    /\ result.ok
    /\ steps = <<"get_string">>

(***************************************************************************)
(* C14  Opaque round trip.  to-native does not fail, and wraps a value of  *)
(* a variant outside Unit/Boolean/Integer/Number/String/Array/Object       *)
(* unconverted in the variant slot; from-native gives back exactly the     *)
(* value given, also when such a value sits inside arrays or objects.      *)
(***************************************************************************)
C14_OpaqueRoundTrip ==
    /\ cv_pc \in {"dynamic", "done"} =>
            /\ cv_dyn.ok
            /\ cv_in[1] \notin PlainTags => cv_dyn.val = <<"AgentValue", cv_in>>
    /\ (cv_pc = "done" /\ ~IsPlain(cv_in)) => cv_out = Ok(cv_in)

\* an opaque value two containers deep has made the round trip
C14_Witness ==
    /\ cv_pc = "done"
    /\ cv_in = Array(<<Object([k \in {"b"} |-> Array(<<Image(7)>>)]), Unit>>)
    /\ cv_dyn.val[2][1][2]["b"] = <<"array", <<<<"AgentValue", Image(7)>>>>>>
    /\ cv_out.ok

(***************************************************************************)
(* C13  from-native is all-or-nothing.  Converting an array or map that    *)
(* holds, at any depth, an element without an AgentValue fails with the    *)
(* error of the first such element in iteration order (arrays by index,    *)
(* maps by key order, depth first); the elements after it do not change    *)
(* the error and no partly converted Array or Object is returned.          *)
(***************************************************************************)
RECURSIVE Flatten(_, _)
Flatten(items, n) ==
    IF n = 0 THEN <<>> ELSE Flatten(items, n - 1) \o items[n]

RECURSIVE LeavesInOrder(_)
\* the leaves of d in the order the conversion meets them
LeavesInOrder(d) ==
    CASE d[1] = "array" ->
            Flatten([i \in 1..Len(d[2]) |-> LeavesInOrder(d[2][i])], Len(d[2]))
      [] d[1] = "map" ->
            Flatten([i \in 1..Len(KeyOrder) |->
                        IF KeyOrder[i] \in DOMAIN d[2]
                        THEN LeavesInOrder(d[2][KeyOrder[i]]) ELSE <<>>],
                    Len(KeyOrder))
      [] OTHER -> <<d>>

IsUnsupportedLeaf(d) == d[1] \notin ConvertibleTypes

C13_AllOrNothing ==
    (cv_pc = "done" /\ cv_in = None) =>
        LET failing == SelectSeq(LeavesInOrder(cv_dyn.val), IsUnsupportedLeaf)
        IN  IF failing # <<>>
            THEN cv_out = Err(InvalidValue("Unsupported Rhai data type", failing[1][1]))
            ELSE cv_out.ok

\* [#{a: Fn, b: 'c'}, 'c'] fails with the error of the Fn under key a
C13_Witness ==
    /\ cv_pc = "done"
    /\ cv_in = None
    /\ cv_dyn.val = <<"array",
                      <<<<"map", [k \in Keys |-> IF k = "a" THEN <<"Fn", "f">>
                                                  ELSE <<"char", "c">>]>>,
                        <<"char", "c">>>>>>
    /\ cv_out = Err(InvalidValue("Unsupported Rhai data type", "Fn"))

(***************************************************************************)
(* C15  The shared engine is created once.  However the get_engine calls   *)
(* of construction, configs_changed and process interleave, the            *)
(* initializer runs exactly once: never a second time, and it has run      *)
(* once a caller holds an engine; every caller holds that same engine; and *)
(* once the cell is set, no step, compiling and executing included,        *)
(* changes it.                                                             *)
(***************************************************************************)
C15_EngineCreatedOnce ==
    [][/\ inits' <= 1
       /\ \A t \in Callers :
            callers'[t].pc = "have" => (inits' = 1 /\ RHAI_ENGINE' = "engine")
       /\ \A t, u \in Callers :
            (callers'[t].seen # 0 /\ callers'[u].seen # 0) =>
                callers'[t].seen = callers'[u].seen
       /\ RHAI_ENGINE # "unset" => (RHAI_ENGINE' = RHAI_ENGINE /\ inits' = inits)
      ]_vars

\* three threads have got the one engine, one of them has used it and
\* returned, and the fourth, which blocked on the initializer, has yet to wake
C15_Witness ==
    /\ inits = 1
    /\ RHAI_ENGINE = "engine"
    /\ \A t \in Callers \ {"peer.new"} : callers[t].seen = 1
    /\ callers["new"].pc = "idle"
    /\ callers["process"].pc = "have"
    /\ callers["peer.new"].pc = "wait"

(***************************************************************************)
(* C12  Exclusive access.  With process and configs_changed requested      *)
(* concurrently on one agent, at most one of them is inside the agent at   *)
(* a time; while an execution is under way the program is not replaced;    *)
(* an execution ends having run the program held when it began (so the     *)
(* one before a reconfiguration or the one after it) and emits what that   *)
(* program gives; and the program slot only ever holds nothing or a        *)
(* completely compiled program.                                            *)
(***************************************************************************)
C12_ExclusiveAccess ==
    [][/\ \A h, k \in Borrowers :
            (running'[h] # None /\ running'[k] # None) => h = k
       /\ running["process"] # None =>
            /\ ast' = ast
            /\ running["process"][1][1] = ast
       /\ (running["process"] # None /\ running'["process"] = None) =>
            outputs' = outputs \o EmissionOf(running["process"][1])
       /\ ast' \in {None} \cup {Some(t) : t \in {u \in Scripts \ {""} : compile(u).ok}}
      ]_vars

\* an execution is under way against the program put in place by a
\* reconfiguration, after an earlier execution against the program before it
C12_Witness ==
    /\ calls = <<<<Some("value + 1"), Integer(41)>>>>
    /\ outputs = <<<<"value", Integer(42)>>>>
    /\ op = <<"configs_changed", ConfigWith("value")>>
    /\ ast = Some("value")
    /\ running["process"] = Some(<<Some("value"), Integer(41)>>)
    /\ running["configs_changed"] = None

(***************************************************************************)
(* C11  No state persists across invocations.  Each process call runs the  *)
(* program in a new scope whose only binding is `value`, so what a call    *)
(* returns and emits depends on the program and the input alone: an agent  *)
(* processing an input returns and emits what a second agent holding the   *)
(* same program returned and emitted for that input, whatever either has   *)
(* processed before, successfully or not.                                  *)
(***************************************************************************)
C11_NoStatePersists ==
    [][\A value \in Inputs :
        (ast # None /\ IsProcessStep(value)) =>
            /\ DOMAIN new_scope(from_value_to_dynamic(value).val) = {"value"}
            /\ \A i \in 1..Len(peer.calls) :
                    (peer.calls[i][1] = ast /\ peer.calls[i][2] = value) =>
                        /\ result' = peer.calls[i][3]
                        /\ outputs' = outputs \o peer.calls[i][4]
      ]_vars

\* the first agent has failed on the example object and then processed 41; the
\* second processed 41 as its first input and a failing input after it
C11_Witness ==
    /\ op[1] = "process"
    /\ calls = <<<<Some("value + 1"), ExampleObject>>, <<Some("value + 1"), Integer(41)>>>>
    /\ outputs = <<<<"value", Integer(42)>>>>
    /\ result.ok
    /\ Len(peer.calls) = 2
    /\ peer.calls[1] = <<Some("value + 1"), Integer(41), Ok(None), <<<<"value", Integer(42)>>>>>>
    /\ ~peer.calls[2][3].ok

(***************************************************************************)
(* C1  Round trip.  Once a value built only from Unit, Boolean, Integer,   *)
(* Number, String, Array and Object has been converted to a Dynamic and    *)
(* back, the second conversion has succeeded and returned the value given. *)
(***************************************************************************)
C1_RoundTrip ==
    (cv_pc = "done" /\ IsPlain(cv_in)) => (cv_out.ok /\ cv_out.val = cv_in)

\* a value of depth three holding an empty array, an empty object and the
\* example object has made the round trip
C1_Witness ==
    /\ cv_pc = "done"
    /\ cv_in = Array(<<ExampleObject, Array(<<Array(<<>>), Object(EmptyMap)>>)>>)
    /\ cv_dyn.ok
    /\ cv_dyn.val[1] = "array"

====
